---- MODULE Spec2Model ----
(***************************************************************************)
(* Model of src/bmtcDA.py: the BMTC financial dashboard script.           *)
(*                                                                         *)
(* The script is re-executed top to bottom by the dashboard runtime.  One  *)
(* execution parses the uploaded CSV (line 19), cleans it (lines 30-47),   *)
(* displays the cleaned table (lines 49-50), runs the descriptive         *)
(* analysis (lines 52-108) and the correlation test (lines 117-133).       *)
(*                                                                         *)
(* Text is modelled as a sequence of one-character strings, so that        *)
(* strip / lower / split / substring search / comma removal / numeric      *)
(* parsing are computed character by character as the library does.        *)
(***************************************************************************)
EXTENDS Integers, Sequences, FiniteSets, TLC

VARIABLES file, df_raw, selected, df, prev_df, err, pc, shown,
          col_x, col_y, pearson_ran, warned, runs

vars == <<file, df_raw, selected, df, prev_df, err, pc, shown,
          col_x, col_y, pearson_ran, warned, runs>>

(***************************************************************************)
(* Bounds of the model.                                                    *)
(***************************************************************************)
MaxRows == 2
MaxRuns == 2

(***************************************************************************)
(* Characters and Python str methods.                                      *)
(***************************************************************************)
UpperCase == <<"A","B","C","D","E","F","G","H","I","J","K","L","M",
               "N","O","P","Q","R","S","T","U","V","W","X","Y","Z">>
LowerCase == <<"a","b","c","d","e","f","g","h","i","j","k","l","m",
               "n","o","p","q","r","s","t","u","v","w","x","y","z">>
Digits == <<"0","1","2","3","4","5","6","7","8","9">>
Whitespace == {" ", "\t", "\n"}

\* str.lower() on one character
LowerChar(c) ==
  IF \E i \in 1..26 : UpperCase[i] = c
  THEN LowerCase[CHOOSE i \in 1..26 : UpperCase[i] = c]
  ELSE c

\* str.lower()
Lower(s) == [i \in 1..Len(s) |-> LowerChar(s[i])]

\* str.strip(): drop leading and trailing whitespace
Strip(s) ==
  LET keep == {i \in 1..Len(s) : s[i] \notin Whitespace}
  IN IF keep = {} THEN <<>>
     ELSE LET lo == CHOOSE i \in keep : \A j \in keep : i <= j
              hi == CHOOSE i \in keep : \A j \in keep : j <= i
          IN SubSeq(s, lo, hi)

\* str.split()[0]: the first whitespace-delimited word
FirstWord(s) ==
  LET t == Strip(s)
      ws == {i \in 1..Len(t) : t[i] \in Whitespace}
  IN IF ws = {} THEN t
     ELSE SubSeq(t, 1, (CHOOSE i \in ws : \A j \in ws : i <= j) - 1)

\* `sub in s`: plain substring search
Contains(s, sub) ==
  \E i \in 0..(Len(s) - Len(sub)) : SubSeq(s, i + 1, i + Len(sub)) = sub

\* str.replace(",", ""): remove every comma
RECURSIVE RemoveCommas(_)
RemoveCommas(s) ==
  IF s = <<>> THEN <<>>
  ELSE IF Head(s) = "," THEN RemoveCommas(Tail(s))
       ELSE <<Head(s)>> \o RemoveCommas(Tail(s))

(***************************************************************************)
(* Floating point values: a finite decimal m / 10^e, NaN, +inf or -inf.   *)
(***************************************************************************)
Num(m, e) == [k |-> "num", m |-> m, e |-> e]
NaN == [k |-> "nan", m |-> 0, e |-> 0]
PosInf == [k |-> "inf", m |-> 1, e |-> 0]
NegInf == [k |-> "inf", m |-> -1, e |-> 0]
Zero == Num(0, 0)

IsNaN(v) == v.k = "nan"
IsFinite(v) == v.k = "num"

RECURSIVE Pow10(_)
Pow10(n) == IF n = 0 THEN 1 ELSE 10 * Pow10(n - 1)

\* a <= b on non-NaN values
Leq(a, b) ==
  CASE a.k = "inf" /\ a.m < 0 -> TRUE
    [] b.k = "inf" /\ b.m > 0 -> TRUE
    [] a.k = "inf" -> FALSE
    [] b.k = "inf" -> FALSE
    [] OTHER -> a.m * Pow10(b.e) <= b.m * Pow10(a.e)

\* canonical form of a finite decimal (5.0 and 5 are the same float)
RECURSIVE Normal(_, _)
Normal(m, e) ==
  IF e > 0 /\ m % 10 = 0 THEN Normal(m \div 10, e - 1) ELSE Num(m, e)

IsDigit(c) == \E i \in 1..10 : Digits[i] = c
DigitVal(c) == (CHOOSE i \in 1..10 : Digits[i] = c) - 1

RECURSIVE DigitsVal(_, _)
DigitsVal(s, acc) ==
  IF s = <<>> THEN acc ELSE DigitsVal(Tail(s), 10 * acc + DigitVal(Head(s)))

\* an unsigned decimal literal: digits, optionally one "." among them
ParseUnsigned(s) ==
  LET dots == {i \in 1..Len(s) : s[i] = "."}
      ds == SelectSeq(s, IsDigit)
  IN IF Cardinality(dots) > 1 \/ ds = <<>> \/ Len(ds) + Cardinality(dots) # Len(s)
     THEN NaN
     ELSE LET frac == IF dots = {} THEN 0
                      ELSE Len(s) - (CHOOSE i \in dots : TRUE)
          IN Normal(DigitsVal(ds, 0), frac)

Negate(v) == IF v.k = "nan" THEN v ELSE [v EXCEPT !.m = 0 - v.m]

\* pd.to_numeric(text, errors="coerce") on one string
ToNumeric(s) ==
  LET neg == s # <<>> /\ Head(s) = "-"
      body == IF neg THEN Tail(s) ELSE s
      low == Lower(body)
      mag == IF low = <<"n","a","n">> THEN NaN
             ELSE IF low = <<"i","n","f">> THEN PosInf
             ELSE ParseUnsigned(body)
  IN IF neg THEN Negate(mag) ELSE mag

(***************************************************************************)
(* Tables.  A cell is text or null (NaN in an object column).  A table is  *)
(* its column names in order and its rows, each row aligned with columns.  *)
(***************************************************************************)
Text(s) == [null |-> FALSE, text |-> s]
Null == [null |-> TRUE, text |-> <<>>]

Factors == <<"F","a","c","t","o","r","s">>
Factors_clean == <<"F","a","c","t","o","r","s","_","c","l","e","a","n">>

NoTable == [columns |-> <<>>, rows |-> <<>>, index |-> <<>>, made |-> FALSE]
None == <<>>

HasColumn(t, name) == \E i \in 1..Len(t.columns) : t.columns[i] = name
ColIndex(t, name) == CHOOSE i \in 1..Len(t.columns) : t.columns[i] = name
Column(t, name) == [r \in 1..Len(t.rows) |-> t.rows[r][ColIndex(t, name)]]

\* df[name] = vals: overwrite the column when present, else append it
SetColumn(t, name, vals) ==
  IF HasColumn(t, name)
  THEN [t EXCEPT !.rows = [r \in 1..Len(t.rows) |->
                             [t.rows[r] EXCEPT ![ColIndex(t, name)] = vals[r]]]]
  ELSE [t EXCEPT !.columns = Append(t.columns, name),
                 !.rows = [r \in 1..Len(t.rows) |-> Append(t.rows[r], vals[r])]]

(***************************************************************************)
(* pd.read_csv (line 19).  Cells whose text is one of the default NA       *)
(* literals are parsed as null.  A non-empty column whose every cell is    *)
(* null or a number gets a numeric dtype; any other column is object.      *)
(***************************************************************************)
NaLiterals == {<<>>, <<"n","a","n">>, <<"N","a","N">>, <<"N","A">>, <<"n","u","l","l">>}

ReadCell(s) == IF s \in NaLiterals THEN Null ELSE Text(s)

read_csv(f) ==
  [columns |-> f.header,
   rows |-> [r \in 1..Len(f.rows) |->
               [c \in 1..Len(f.header) |-> ReadCell(f.rows[r][c])]]]

DType(col) ==
  IF Len(col) = 0 \/ \E i \in 1..Len(col) :
                        ~col[i].null /\ IsNaN(ToNumeric(col[i].text))
  THEN "object" ELSE "float64"

(***************************************************************************)
(* Row selector (lines 30-38).                                             *)
(***************************************************************************)
target_factors ==
  << <<"T","h","r","o","u","g","h"," ","S","a","l","e"," ","o","f"," ","T","i","c","k","e","t","s">>,
     <<"M","o","n","t","h","l","y"," ","p","a","s","s">>,
     <<"D","a","i","l","y"," ","p","a","s","s">>,
     <<"S","t","u","d","e","n","t"," ","p","a","s","s">>,
     <<"O","t","h","e","r","s">>,
     <<"T","o","t","a","l">> >>

\* df_raw['Factors'] raises KeyError when the column is absent (line 31)
MissingFactors(t) == ~HasColumn(t, Factors)

\* the .str accessor raises AttributeError on a non-object column (line 31)
StrAccessorRaises(t) == DType(Column(t, Factors)) # "object"

\* .str.strip().str.lower() on one cell: null stays null
StripLower(cell) == IF cell.null THEN Null ELSE Text(Lower(Strip(cell.text)))

\* the match token of a canonical name: t.lower().split()[0]
Token(name) == FirstWord(Lower(name))

\* .str.contains(token, na=False) on one cell
StrContains(cell, tok) == ~cell.null /\ Contains(cell.text, tok)

\* df_raw['Factors_clean'] = df_raw['Factors'].str.strip().str.lower()
WithFactorsClean(t) ==
  SetColumn(t, Factors_clean,
            [r \in 1..Len(t.rows) |-> StripLower(Column(t, Factors)[r])])

\* the rows of df_raw[df_raw['Factors_clean'].str.contains(token, na=False)]
Match(t, name) ==
  {r \in 1..Len(t.rows) : StrContains(Column(t, Factors_clean)[r], Token(name))}

\* match.iloc[0]: the first matching row in row order
IlocLast(S) == CHOOSE r \in S : \A q \in S : q <= r
Iloc0(S) == CHOOSE r \in S : \A q \in S : r <= q

\* the loop of lines 33-38: the dict `selected`, in insertion order
RECURSIVE SelectFrom(_, _)
SelectFrom(t, i) ==
  IF i > Len(target_factors) THEN <<>>
  ELSE LET name == target_factors[i]
           m == Match(t, name)
       IN (IF m # {} THEN <<[key |-> name, row |-> t.rows[Iloc0(m)]]>> ELSE <<>>)
          \o SelectFrom(t, i + 1)

\* a variant that keeps a placeholder row of nulls for an unmatched category
SelectPlaceholder(t) ==
  [i \in 1..Len(target_factors) |->
     LET m == Match(t, target_factors[i])
     IN [key |-> target_factors[i],
         row |-> IF m # {} THEN t.rows[Iloc0(m)]
                 ELSE [c \in 1..Len(t.columns) |-> Null]]]
Select(t) == SelectFrom(t, 1)

Keys(sel) == [i \in 1..Len(sel) |-> sel[i].key]

(***************************************************************************)
(* Table reshaper (lines 40-47).                                           *)
(***************************************************************************)
\* pd.DataFrame(selected).T: one row per selected category, raw columns
DfSel(sel, t) ==
  [columns |-> IF sel = <<>> THEN <<>> ELSE t.columns,
   index |-> Keys(sel),
   rows |-> [i \in 1..Len(sel) |-> sel[i].row]]

\* line 42: the year-column test
IsYearColLoose(c) == Contains(c, <<"2","0">>) \/ Contains(c, <<"1","9">>)
IsYearCol(c) ==
  /\ Contains(c, <<"2","0">>) \/ Contains(c, <<"1","9">>)
  /\ ~Contains(c, <<"b","i","f","u","r","c","a","t","i","o","n">>)

\* x.astype(str) on one cell
AsStr(cell) == IF cell.null THEN <<"n","a","n">> ELSE cell.text

\* pd.to_numeric(x.astype(str).str.replace(",", ""), errors="coerce")
Coerce(cell) == ToNumeric(RemoveCommas(AsStr(cell)))

\* line 45: year columns only, coerced, transposed: rows are years
Transposed(ds) ==
  LET year_cols == SelectSeq(ds.columns, IsYearCol)
  IN [columns |-> ds.index,
      index |-> year_cols,
      rows |-> [y \in 1..Len(year_cols) |->
                  [c \in 1..Len(ds.index) |->
                     Coerce(ds.rows[c][ColIndex(ds, year_cols[y])])]],
      made |-> TRUE]

AllNaN(row) == \A c \in 1..Len(row) : IsNaN(row[c])

RECURSIVE KeepIdx(_, _)
KeepIdx(d, y) ==
  IF y > Len(d.index) THEN <<>>
  ELSE (IF AllNaN(d.rows[y]) THEN <<>> ELSE <<y>>) \o KeepIdx(d, y + 1)

\* df.dropna(how='all')
DropNaAll(d) ==
  LET keep == KeepIdx(d, 1)
  IN [d EXCEPT !.index = [i \in 1..Len(keep) |-> d.index[keep[i]]],
               !.rows = [i \in 1..Len(keep) |-> d.rows[keep[i]]]]

\* df.fillna(0)
FillNa(d) ==
  [d EXCEPT !.rows = [y \in 1..Len(d.rows) |->
                        [c \in 1..Len(d.rows[y]) |->
                           IF IsNaN(d.rows[y][c]) THEN Zero ELSE d.rows[y][c]]]]

\* line 46
FillThenDrop(d) == DropNaAll(FillNa(d))
DropOnly(d) == DropNaAll(d)
DropFill(d) == FillNa(DropNaAll(d))

Reshape(sel, t) == DropFill(Transposed(DfSel(sel, t)))

(***************************************************************************)
(* The cleaning block as a whole (lines 30-47).                            *)
(***************************************************************************)
\* df_raw as the block leaves it: line 31 adds the Factors_clean column
RawAfterCleanDropRow(t) ==
  LET tc == WithFactorsClean(t)
  IN [tc EXCEPT !.rows = IF tc.rows = <<>> THEN <<>> ELSE Tail(tc.rows)]
RawAfterClean(t) == WithFactorsClean(t)

CleanOk(t) ==
  LET tc == WithFactorsClean(t)
      sel == Select(tc)
  IN [err |-> "none", df_raw |-> RawAfterClean(t), selected |-> sel,
      df |-> Reshape(sel, tc)]

CleanOutcomeLenient(t) ==
  IF MissingFactors(t) \/ StrAccessorRaises(t)
  THEN [err |-> "none", df_raw |-> t, selected |-> <<>>, df |-> Reshape(<<>>, t)]
  ELSE CleanOk(t)
CleanOutcome(t) ==
  IF MissingFactors(t)
  THEN [err |-> "KeyError", df_raw |-> t, selected |-> <<>>, df |-> NoTable]
  ELSE IF StrAccessorRaises(t)
  THEN [err |-> "AttributeError", df_raw |-> t, selected |-> <<>>, df |-> NoTable]
  ELSE CleanOk(t)

(***************************************************************************)
(* Analysis and hypothesis test (lines 52-133).                            *)
(***************************************************************************)
\* Lines 52-108.  With no column, st.selectbox returns None and df[None]
\* raises KeyError (line 73).  With fewer than two year rows the statistics
\* and plotting routines receive a degenerate sample; whether one of them
\* raises depends on the library build, so both outcomes are allowed.
AnalyseOutcomes(d) ==
  IF Len(d.columns) = 0 THEN {"KeyError"}
  ELSE IF Len(d.index) < 2 THEN {"none", "ValueError"}
  ELSE {"none"}

Min(a, b) == IF a <= b THEN a ELSE b

\* index=min(k, len(df.columns)-1), 0-based, as a position in df.columns
DefaultChoice(d, k) == d.columns[Min(k, Len(d.columns) - 1) + 1]

\* line 120: the guard of the correlation test
AlwaysRun(x, y) == TRUE
Distinct(x, y) == x # y

\* lines 120-133: pearsonr raises ValueError on fewer than two observations
HypothesisOutcome(d, x, y) ==
  IF Distinct(x, y)
  THEN [ran |-> TRUE, warned |-> FALSE,
        err |-> IF Len(d.index) < 2 THEN "ValueError" ELSE "none"]
  ELSE [ran |-> FALSE, warned |-> TRUE, err |-> "none"]

(***************************************************************************)
(* Uploaded files.                                                         *)
(***************************************************************************)
Y2020_21 == <<"2","0","2","0","-","2","1">>
Y2021_22 == <<"2","0","2","1","-","2","2">>
Y1998_99 == <<"1","9","9","8","-","9","9">>
Bif == <<"2","0","1","9","-","2","0"," ","b","i","f","u","r","c","a","t","i","o","n">>
BifCap == <<"2","0","1","9","-","2","0"," ","B","i","f","u","r","c","a","t","i","o","n">>
Remarks == <<"R","e","m","a","r","k","s">>
SlNo == <<"S","l">>

Labels == { <<"T","h","r","o","u","g","h"," ","S","u","b","t","o","t","a","l"," ">>,
            <<" ","M","o","n","t","h","l","y"," ","P","A","S","S">>,
            <<>>,
            <<"7">> }

Cells == { <<"1",",","0","0",",","0","0","0">>,
           <<"a","b","c">>,
           <<"n","a","n">>,
           <<"i","n","f">>,
           <<"-","2",".","5","0">> }

Seven == <<"7">>

SeqsUpTo(S, n) == UNION {[1..k -> S] : k \in 0..n}

TextLabels == { <<"T","h","r","o","u","g","h"," ","S","u","b","t","o","t","a","l"," ">>, <<" ","M","o","n","t","h","l","y"," ","P","A","S","S">> }

FilesOf(headers, labels, cells, thirds) ==
  {[header |-> h, rows |-> rs] :
     h \in headers,
     rs \in SeqsUpTo({<<l, c, d>> : l \in labels, c \in cells, d \in thirds},
                     MaxRows)}

\* every kind of label, text or not, over a year column and an excluded one
LabelFiles ==
  FilesOf({<<Factors, Y2020_21, Bif>>}, Labels, {<<"5">>, <<"a","b","c">>}, {Seven})

\* every kind of cell under text labels
CellFiles ==
  FilesOf({<<Factors, Y2020_21, Bif>>}, TextLabels, Cells, {Seven})

\* two columns of varied cells, with and without a Factors column
ShapeFiles ==
  FilesOf({ <<Factors, Y1998_99, BifCap>>, <<Factors, Remarks, Bif>>,
            <<SlNo, Y2020_21, Bif>> },
          TextLabels, {<<"5">>, <<"a","b","c">>}, {Seven, <<"x">>})

Files == LabelFiles \cup CellFiles \cup ShapeFiles

RenderLabels == { <<"t","h","r","o","u","g","h"," ","m","o","n","t","h","l","y"," ","d","a","i","l","y">>,
                  <<"s","t","u","d","e","n","t"," ","o","t","h","e","r","s"," ","t","o","t","a","l">>,
                  <<"T","o","t","a","l">>,
                  <<>> }

RenderCells == { <<"5">>, <<"a","b","c">> }

RenderFiles ==
  {[header |-> <<Factors, Y2020_21, Y2021_22>>, rows |-> rs] :
     rs \in SeqsUpTo({<<l, c, Seven>> : l \in RenderLabels, c \in RenderCells},
                     MaxRows)}

(***************************************************************************)
(* The script as a state machine.                                          *)
(***************************************************************************)
NoRaw == [columns |-> <<>>, rows |-> <<>>]

Start(f) ==
  /\ file = f
  /\ df_raw = NoRaw
  /\ selected = <<>>
  /\ df = NoTable
  /\ prev_df = NoTable
  /\ err = "none"
  /\ pc = "start"
  /\ shown = FALSE
  /\ col_x = None
  /\ col_y = None
  /\ pearson_ran = FALSE
  /\ warned = FALSE
  /\ runs = 0

Init == \E f \in Files : Start(f)

InitRender == \E f \in RenderFiles : Start(f)

\* lines 16-27: a run of the script starts by parsing the uploaded file
Load ==
  /\ pc = "start"
  /\ df_raw' = read_csv(file)
  /\ pc' = "loaded"
  /\ runs' = runs + 1
  /\ UNCHANGED <<file, selected, df, prev_df, err, shown, col_x, col_y,
                 pearson_ran, warned>>

\* lines 30-47
Clean ==
  /\ pc = "loaded"
  /\ LET o == CleanOutcome(df_raw)
     IN /\ df_raw' = o.df_raw
        /\ selected' = o.selected
        /\ df' = o.df
        /\ err' = o.err
        /\ pc' = IF o.err = "none" THEN "cleaned" ELSE "error"
  /\ UNCHANGED <<file, prev_df, shown, col_x, col_y, pearson_ran, warned, runs>>

\* lines 49-50: st.dataframe(df)
Show ==
  /\ pc = "cleaned"
  /\ shown' = TRUE
  /\ pc' = "shown"
  /\ UNCHANGED <<file, df_raw, selected, df, prev_df, err, col_x, col_y,
                 pearson_ran, warned, runs>>

\* the cleaning block executed again on the df_raw object the previous
\* execution left behind
Reinvoke ==
  /\ pc = "shown"
  /\ runs < MaxRuns
  /\ prev_df' = df
  /\ selected' = <<>>
  /\ df' = NoTable
  /\ shown' = FALSE
  /\ pc' = "loaded"
  /\ runs' = runs + 1
  /\ UNCHANGED <<file, df_raw, err, col_x, col_y, pearson_ran, warned>>

\* lines 52-108
Analyse ==
  /\ pc = "shown"
  /\ \E e \in AnalyseOutcomes(df) :
       /\ err' = e
       /\ pc' = IF e = "none" THEN "analysed" ELSE "error"
  /\ UNCHANGED <<file, df_raw, selected, df, prev_df, shown, col_x, col_y,
                 pearson_ran, warned, runs>>

\* lines 110-133: the two select boxes show their defaults on the first
\* run; on later runs they hold whatever the user picked
Hypothesis ==
  /\ pc = "analysed"
  /\ \E x \in {df.columns[i] : i \in 1..Len(df.columns)},
        y \in {df.columns[i] : i \in 1..Len(df.columns)} :
       /\ runs = 1 => (x = DefaultChoice(df, 2) /\ y = DefaultChoice(df, 5))
       /\ col_x' = x
       /\ col_y' = y
       /\ LET o == HypothesisOutcome(df, x, y)
          IN /\ pearson_ran' = o.ran
             /\ warned' = o.warned
             /\ err' = o.err
             /\ pc' = IF o.err = "none" THEN "done" ELSE "error"
  /\ UNCHANGED <<file, df_raw, selected, df, prev_df, shown, runs>>

\* a widget interaction makes the runtime execute the script again from the
\* top; nothing but the uploaded file survives
Rerun ==
  /\ pc \in {"done", "error"}
  /\ runs < MaxRuns
  /\ df_raw' = NoRaw
  /\ selected' = <<>>
  /\ df' = NoTable
  /\ err' = "none"
  /\ shown' = FALSE
  /\ col_x' = None
  /\ col_y' = None
  /\ pearson_ran' = FALSE
  /\ warned' = FALSE
  /\ pc' = "start"
  /\ UNCHANGED <<file, prev_df, runs>>

Next == Load \/ Clean \/ Show \/ Reinvoke

Spec == Init /\ [][Next]_vars

NextRender == Load \/ Clean \/ Show \/ Analyse \/ Hypothesis \/ Rerun

SpecRender == InitRender /\ [][NextRender]_vars

(***************************************************************************)
(* Vocabulary of the properties.                                           *)
(***************************************************************************)
Parsed == read_csv(file)
Cleaned == pc \in {"cleaned", "shown", "analysed", "done"}
HeaderHas(name) == \E i \in 1..Len(file.header) : file.header[i] = name
Range(q) == {q[i] : i \in 1..Len(q)}

\* the match token of each canonical category, written out
Tokens ==
  << <<"t","h","r","o","u","g","h">>,
     <<"m","o","n","t","h","l","y">>,
     <<"d","a","i","l","y">>,
     <<"s","t","u","d","e","n","t">>,
     <<"o","t","h","e","r","s">>,
     <<"t","o","t","a","l">> >>

\* the rows of the parsed file whose trimmed, lowercased label contains the
\* token of category i
Hits(i) ==
  {r \in 1..Len(Parsed.rows) :
     LET cell == Parsed.rows[r][ColIndex(Parsed, Factors)]
     IN ~cell.null /\ Contains(Lower(Strip(cell.text)), Tokens[i])}

Entries(name) == {j \in 1..Len(selected) : selected[j].key = name}

\* a column name that holds "20" or "19" and not "bifurcation"
YearName(c) ==
  /\ \E i \in 1..(Len(c) - 1) : <<c[i], c[i + 1]>> \in {<<"2","0">>, <<"1","9">>}
  /\ ~Contains(c, <<"b","i","f","u","r","c","a","t","i","o","n">>)

\* the text of a selected row's cell parses as a number once commas are removed
Numeric(cell) == ~cell.null /\ ~IsNaN(ToNumeric(RemoveCommas(cell.text)))
Parse(cell) == ToNumeric(RemoveCommas(cell.text))

\* the cell of selected row j under the raw column named c
Src(j, c) == selected[j].row[ColIndex(df_raw, c)]

YearColumns == {c \in Range(df_raw.columns) : YearName(c)}

\* position of year label c among the rows of the cleaned table
Pos(c) == CHOOSE y \in 1..Len(df.index) : df.index[y] = c

\* the numeric values present in the selected rows' year cells
Data == {Parse(Src(j, c)) : j \in 1..Len(selected), c \in YearColumns} \ {NaN}

\* C1: each canonical category is mapped to the first row, in row order, whose
\* trimmed lowercased Factors value contains the category's token; a category
\* no row matches is not a key of the result.
C1_FirstMatchingRow ==
  Cleaned =>
    \A i \in 1..Len(target_factors) :
      IF Hits(i) = {}
      THEN Entries(target_factors[i]) = {}
      ELSE /\ Cardinality(Entries(target_factors[i])) = 1
           /\ LET j == CHOOSE k \in Entries(target_factors[i]) : TRUE
                  r == CHOOSE q \in Hits(i) : \A o \in Hits(i) : q <= o
              IN SubSeq(selected[j].row, 1, Len(file.header)) = Parsed.rows[r]

C1_Witness ==
  /\ pc = "cleaned"
  /\ \E i \in 1..Len(target_factors) :
       /\ Cardinality(Hits(i)) >= 2
       /\ \E a, b \in Hits(i) : Parsed.rows[a] # Parsed.rows[b]
  /\ \E i \in 1..Len(target_factors) : Hits(i) = {}

\* C2: a year column is a row of the cleaned table exactly when one of the
\* selected rows has a numeric cell in it; in a retained year every numeric
\* cell keeps its value and every non-numeric cell is 0.0.
C2_DropThenFill ==
  (Cleaned /\ selected # <<>>) =>
    \A c \in YearColumns :
      /\ (c \in Range(df.index)) <=> (\E j \in 1..Len(selected) : Numeric(Src(j, c)))
      /\ c \in Range(df.index) =>
           \A j \in 1..Len(selected) :
             df.rows[Pos(c)][j] = IF Numeric(Src(j, c)) THEN Parse(Src(j, c)) ELSE Zero

C2_Witness ==
  /\ pc = "cleaned"
  /\ \E c \in YearColumns : c \notin Range(df.index)
  /\ \E c \in YearColumns :
       /\ c \in Range(df.index)
       /\ \E j \in 1..Len(selected) : ~Numeric(Src(j, c)) /\ df.rows[Pos(c)][j] = Zero

\* C3: only columns whose name holds "20" or "19" and not (case-sensitively)
\* "bifurcation" become rows of the cleaned table, every such column with a
\* numeric selected cell does, and "2019-20 bifurcation" never does.
C3_YearColumns ==
  Cleaned =>
    /\ \A y \in 1..Len(df.index) :
         df.index[y] \in Range(file.header) /\ YearName(df.index[y])
    /\ Bif \notin Range(df.index)
    /\ \A c \in Range(file.header) :
         (YearName(c) /\ \E j \in 1..Len(selected) : Numeric(Src(j, c)))
           => c \in Range(df.index)

C3_Witness ==
  /\ pc = "cleaned"
  /\ BifCap \in Range(df.index)
  /\ Y1998_99 \in Range(df.index)

\* C4: without a Factors column the run ends in an error state that names the
\* missing column lookup, and no cleaned table is produced or displayed.
C4_MissingColumnAborts ==
  ~HeaderHas(Factors) =>
    /\ pc \in {"start", "loaded", "error"}
    /\ pc = "error" => err = "KeyError"
    /\ ~df.made
    /\ ~shown

C4_Witness == pc = "error" /\ err = "KeyError" /\ ~HeaderHas(Factors) /\ ~df.made

\* C5: with a Factors column present the row selector never raises, whatever
\* the cells hold, and yields at most six entries keyed by canonical names.
C5_SelectorNeverRaises ==
  HeaderHas(Factors) =>
    /\ pc # "error"
    /\ Len(selected) <= 6
    /\ \A j \in 1..Len(selected) : selected[j].key \in Range(target_factors)

\* C6: the columns of the cleaned table are exactly the canonical categories
\* that matched a row, each once, and no cell of the table is missing.
C6_ColumnsAreMatched ==
  Cleaned =>
    /\ Range(df.columns) = {target_factors[i] : i \in {k \in 1..Len(target_factors) : Hits(k) # {}}}
    /\ Cardinality(Range(df.columns)) = Len(df.columns)
    /\ \A y \in 1..Len(df.rows) :
         /\ Len(df.rows[y]) = Len(df.columns)
         /\ \A c \in 1..Len(df.columns) : ~IsNaN(df.rows[y][c])

C6_Witness ==
  /\ pc = "cleaned"
  /\ Len(df.index) > 0
  /\ Len(df.columns) >= 2
  /\ target_factors[4] \notin Range(df.columns)
  /\ \E y \in 1..Len(df.rows) : \E c \in 1..Len(df.columns) : df.rows[y][c] = Zero

\* C7 as stated: every cell of the cleaned table is finite and at least the
\* minimum of the numeric values of the selected data.
C7_FiniteAboveMinimum ==
  Cleaned =>
    \A y \in 1..Len(df.rows) : \A c \in 1..Len(df.columns) :
      /\ IsFinite(df.rows[y][c])
      /\ \E u \in Data : Leq(u, df.rows[y][c])

\* C7 amended: no cell of the cleaned table is NaN; every cell is at least the
\* smaller of 0.0 and the minimum of the numeric values of the selected data;
\* a cell is infinite only where the selected cell's own text parses to that
\* infinity.
C7_NotNaNAboveMinimumOrZero ==
  Cleaned =>
    \A y \in 1..Len(df.rows) : \A c \in 1..Len(df.columns) :
      LET v == df.rows[y][c]
      IN /\ ~IsNaN(v)
         /\ Leq(Zero, v) \/ \E u \in Data : Leq(u, v)
         /\ ~IsFinite(v) => Parse(Src(c, df.index[y])) = v

C7_Witness ==
  /\ pc = "cleaned"
  /\ \E y \in 1..Len(df.rows) :
       /\ \E c \in 1..Len(df.columns) : df.rows[y][c] = PosInf
       /\ \E c \in 1..Len(df.columns) :
            df.rows[y][c] = Zero /\ ~Numeric(Src(c, df.index[y]))

\* C8: a run leaves the parsed table unchanged: same columns, same cells.
C8_RawTableUnchanged ==
  pc \notin {"start"} => df_raw = Parsed

\* C9: cleaning the table object a second time yields the same cleaned table.
C9_Idempotent ==
  (Cleaned /\ runs >= 2) => df = prev_df

C9_Witness ==
  /\ pc = "cleaned"
  /\ runs = 2
  /\ Len(df.index) > 0
  /\ Len(df.columns) >= 2
  /\ HasColumn(df_raw, Factors_clean)

\* C10: whenever the X and Y choices coincide the correlation test is not run
\* and the warning is shown instead; the test runs only on two different
\* columns.
C10_SameColumnBlocked ==
  /\ pearson_ran => col_x # col_y
  /\ (pc = "done" /\ col_x = col_y) => (warned /\ ~pearson_ran)
  /\ warned => ~pearson_ran

C10_Witness ==
  /\ pc = "done"
  /\ warned
  /\ col_x = col_y
  /\ Len(df.columns) >= 2

====
